---- MODULE Spec2Model ----
(***************************************************************************)
(* Breathe-Script: the memorization session (components/Memorizer.tsx)     *)
(* mounted by App.  Strings are sequences of one-character strings.  Time  *)
(* is in milliseconds; `elapsed' holds the milliseconds whose thousandth   *)
(* the component stores as seconds.  A timer callback runs at the instant  *)
(* it is due: time does not pass an armed timer's due time.  An event      *)
(* handler is one step together with the render and the effects React      *)
(* flushes before the next event.                                          *)
(***************************************************************************)
EXTENDS Integers, Sequences, FiniteSets, TLC

VARIABLES
  scripts,          \* App: scripts, the stored script records
  activeScriptId,   \* App: activeScriptId, NULL for null
  content,          \* script.content of the script memorized (activeScript)
  bulletsHtml,      \* Memorizer: useState(() => formatInitialContent(script.bullets))
  view,             \* App: view
  words,            \* Memorizer: words (useMemo)
  wordIndices,      \* Memorizer: wordIndices (useMemo)
  blackedOutCount,  \* Memorizer: useState(0), the latest value
  renderedCount,    \* the blackedOutCount of the latest render, which the
                    \* closures of nextStep and prevStep read
  peekIndex,        \* Memorizer: useState(null)
  isTiming,         \* Memorizer: useState(false), the latest value
  renderedTiming,   \* the isTiming of the latest render, which the closure
                    \* of toggleTimer reads
  elapsed,          \* Memorizer: useState(0), in ms
  startTimeRef,     \* Memorizer: useRef(0)
  timerIntervalRef, \* Memorizer: useRef(0)
  peekTimer,        \* the `timer' the peek effect's pending cleanup clears, 0 if none
  timers,           \* the window's armed timeouts and intervals
  nextTimerId,      \* the id the next setTimeout / setInterval returns
  now,              \* Date.now()
  peekReqAt,        \* history: time of the latest peek request on a hidden word
  peekReqIdx,       \* history: token index of that request
  replacedPeek,     \* history: the pending peek that request replaced, if any
  runs,             \* history: number of timer starts in this session
  resetAnswer,      \* history: the answer to the confirmation, when the
                    \* latest progress operation was a reset
  armedAtExit,      \* history: timers armed when the last session ended (0 in a session)
  autosaves,        \* the armed auto-save timeouts: when each is due and the
                    \* bullets text its callback passes to onSave
  lastInputAt,      \* history: time of the latest change of the bullets text in
                    \* this session, NULL if none
  saves,            \* history: times handleSave replaced the script record in this session
  unsavedEdit       \* history: the user changed the bullets and the latest text
                    \* was not passed to onSave since

vars == <<scripts, activeScriptId, bulletsHtml, unsavedEdit, content, view, words, wordIndices, blackedOutCount, renderedCount, peekIndex,
          isTiming, renderedTiming, elapsed, startTimeRef, timerIntervalRef, peekTimer,
          timers, nextTimerId, now, peekReqAt, peekReqIdx, replacedPeek, runs,
          resetAnswer, armedAtExit, autosaves, lastInputAt, saves>>

(* ---------------------------- bounds ---------------------------------- *)
MaxWords == 2         \* most words in the script of a timed session
MaxTextLen == 4       \* longest script content given to the tokenizer
MaxSteps == 6         \* time horizon, in steps of TimeStep
MaxTimerIds == 2      \* timers created in one run of the model
MaxPaceWords == 13    \* most words in the script of a measured run
MaxTenths == 58       \* longest measured run, in ticks of a tenth of a second
MaxSaveSteps == 5      \* time horizon of the bullets editor, in steps of SaveStep
MaxBatch == 2         \* most calls of nextStep / prevStep handled on one render
MaxFormatSeconds == 3661  \* longest run whose time is formatted, in seconds

(* ------------------------- program constants -------------------------- *)
AutoSaveMs == 1000
\* the grid of time in the bullets editor, where no other timer is armed:
\* half the auto-save delay
SaveStep == AutoSaveMs \div 2
MaxSaveTime == MaxSaveSteps * SaveStep
PeekMs == 600
TickMs == 100
NULL == -1

TimeStep == TickMs
MaxTime == MaxSteps * TimeStep

(* ----------------------------- strings -------------------------------- *)
WordChars == {"a", "b"}
SpaceChars == {" ", "\n"}
Alphabet == WordChars \cup SpaceChars

StringsOver(chars, n) == UNION {[1..k -> chars] : k \in 0..n}

RECURSIVE ScriptOfWords(_)
\* a script of n one-letter words separated by single spaces
ScriptOfWords(n) ==
  IF n = 0 THEN <<>>
  ELSE IF n = 1 THEN <<"a">> ELSE ScriptOfWords(n - 1) \o <<" ", "a">>

\* the script "Hello   world\nfoo"
ScenarioText ==
  <<"H", "e", "l", "l", "o", " ", " ", " ", "w", "o", "r", "l", "d", "\n",
    "f", "o", "o">>

IsSpace(c) == c \in SpaceChars

NonEmpty(w) == Len(w) > 0
\* /\S/.test(w)
HasNonSpace(w) == \E i \in 1..Len(w) : ~IsSpace(w[i])

RECURSIVE RunEnd(_, _)
RunEndSingle(s, q) == q
\* last position of the whitespace run that \s+ matches from position q
RunEnd(s, q) ==
  IF q < Len(s) /\ IsSpace(s[q + 1]) THEN RunEnd(s, q + 1) ELSE q

\* what one match of /(\s+)/ over s[q..e] adds to the result: the piece
\* before the match and the captured group
MatchPiecesNoCapture(s, p, q, e) == <<SubSeq(s, p, q - 1)>>
MatchPieces(s, p, q, e) == <<SubSeq(s, p, q - 1), SubSeq(s, q, e)>>

RECURSIVE SplitFrom(_, _, _, _)
\* String.prototype.split with a regular expression: p is the start of the
\* pending piece, q the position where a match is tried
SplitFrom(s, p, q, acc) ==
  IF q > Len(s) THEN Append(acc, SubSeq(s, p, Len(s)))
  ELSE IF IsSpace(s[q])
       THEN LET e == RunEnd(s, q)
            IN SplitFrom(s, e + 1, e + 1, acc \o MatchPieces(s, p, q, e))
       ELSE SplitFrom(s, p, q + 1, acc)

\* script.content.split(/(\s+)/)
Split(s) == IF Len(s) = 0 THEN << <<>> >> ELSE SplitFrom(s, 1, 1, <<>>)

RECURSIVE Concat(_)
\* tokens.join('')
Concat(ws) == IF ws = <<>> THEN <<>> ELSE Head(ws) \o Concat(Tail(ws))

RECURSIVE FilterWordIdx(_, _)
\* words.map((w, idx) => (/\S/.test(w) ? idx : -1)).filter((idx) => idx !== -1)
\* token indices are 0-based as in the source: token idx is ws[idx + 1]
FilterWordIdx(ws, idx) ==
  IF idx >= Len(ws) THEN <<>>
  ELSE IF HasNonSpace(ws[idx + 1])
       THEN <<idx>> \o FilterWordIdx(ws, idx + 1)
       ELSE FilterWordIdx(ws, idx + 1)

WordIndicesOf(ws) == FilterWordIdx(ws, 0)

\* Array.prototype.indexOf: 0-based position of the first occurrence, or -1
IndexOf(seq, x) ==
  IF \E i \in 1..Len(seq) : seq[i] = x
  THEN (CHOOSE i \in 1..Len(seq) : seq[i] = x /\ \A j \in 1..(i - 1) : seq[j] # x) - 1
  ELSE -1

totalWords == Len(wordIndices)

HiddenBelowOrAt(rank) == rank <= blackedOutCount
HiddenBelow(rank) == rank < blackedOutCount

FoundAlways(i) == TRUE
\* actualWordIndex !== -1
Found(i) == i # -1

isWordBlackedOut(indexInWords) ==
  LET actualWordIndex == IndexOf(wordIndices, indexInWords)
  IN Found(actualWordIndex) /\ HiddenBelow(actualWordIndex)

\* the tokens rendered as a clickable span
WordTokens == {idx \in 0..(Len(words) - 1) : HasNonSpace(words[idx + 1])}

(* ----------------------------- bullets -------------------------------- *)
\* script.bullets: an optional string
Absent == [present |-> FALSE, text |-> <<>>]
Stored(t) == [present |-> TRUE, text |-> t]

\* '<ul><li><br></li></ul>'
EmptyList == <<"<ul>", "<li>", "<br>", "</li>", "</ul>">>

RECURSIVE TrimStart(_)
TrimStart(s) == IF s # <<>> /\ IsSpace(Head(s)) THEN TrimStart(Tail(s)) ELSE s

RECURSIVE TrimEnd(_)
TrimEnd(s) ==
  IF s # <<>> /\ IsSpace(s[Len(s)]) THEN TrimEnd(SubSeq(s, 1, Len(s) - 1)) ELSE s

\* String.prototype.trim
Trim(s) == TrimEnd(TrimStart(s))

RECURSIVE SplitLinesFrom(_, _, _)
SplitLinesFrom(s, p, q) ==
  IF q > Len(s) THEN <<SubSeq(s, p, Len(s))>>
  ELSE IF s[q] = "\n"
       THEN <<SubSeq(s, p, q - 1)>> \o SplitLinesFrom(s, q + 1, q + 1)
       ELSE SplitLinesFrom(s, p, q + 1)

\* content.split('\n')
SplitLines(s) == SplitLinesFrom(s, 1, 1)

RECURSIVE ListItems(_)
\* .map(line => line.trim()).filter(line => line.length > 0)
\* .map(line => `<li>${line}</li>`).join('')
ListItems(lines) ==
  IF lines = <<>> THEN <<>>
  ELSE LET line == Trim(Head(lines))
       IN (IF Len(line) > 0 THEN <<"<li>">> \o line \o <<"</li>">> ELSE <<>>)
            \o ListItems(Tail(lines))

\* content.includes('<ul>') || content.includes('<ol>') || content.includes('<li>')
LooksLikeHtml(s) == \E i \in 1..Len(s) : s[i] \in {"<ul>", "<ol>", "<li>"}

formatInitialContent(b) ==
  IF ~b.present \/ Trim(b.text) = <<>> THEN EmptyList
  ELSE IF LooksLikeHtml(b.text) THEN b.text
  ELSE LET listItems == ListItems(SplitLines(b.text))
       IN <<"<ul>">>
            \o (IF listItems = <<>> THEN <<"<li>", "<br>", "</li>">> ELSE listItems)
            \o <<"</ul>">>

\* bulletsHtml !== script.bullets
DiffersFromStored(h, b) == ~(b.present /\ b.text = h)

ScriptIds == {scripts[i].id : i \in DOMAIN scripts}
ScriptOf(id) == scripts[CHOOSE i \in DOMAIN scripts : scripts[i].id = id]
\* scripts.find(s => s.id === activeScriptId)
activeScript == ScriptOf(activeScriptId)

(* ------------------------------ timers -------------------------------- *)
Timeouts == {t \in timers : t.kind = "timeout"}
Intervals == {t \in timers : t.kind = "interval"}

ClearTimerNoop(ts, id) == ts
\* clearTimeout / clearInterval: one pool of ids
ClearTimer(ts, id) == {t \in ts : t.id # id}

(* ------------------------------- Init --------------------------------- *)
Unmounted ==
  /\ words = <<>>
  /\ wordIndices = <<>>
  /\ blackedOutCount = 0
  /\ renderedCount = 0
  /\ peekIndex = NULL
  /\ isTiming = FALSE
  /\ renderedTiming = FALSE
  /\ elapsed = 0
  /\ startTimeRef = 0
  /\ timerIntervalRef = 0
  /\ peekTimer = 0
  /\ peekReqAt = NULL
  /\ peekReqIdx = NULL
  /\ replacedPeek = NULL
  /\ runs = 0
  /\ resetAnswer = "none"
  /\ autosaves = {}
  /\ lastInputAt = NULL
  /\ saves = 0
  /\ bulletsHtml = <<>>

\* the store holds one script, with bullets b
OneScript(b) == scripts = <<[id |-> 1, content |-> content, bullets |-> b]>>

\* the session is on the one stored script
MountedOn(b) ==
  /\ OneScript(b)
  /\ activeScriptId = 1
  /\ bulletsHtml = formatInitialContent(b)
  /\ unsavedEdit = FALSE

\* the bullets of the stored script were saved by an earlier session as the
\* list the editor starts with
InitRest ==
  /\ view = "list"
  /\ OneScript(Stored(EmptyList))
  /\ activeScriptId = NULL
  /\ unsavedEdit = FALSE
  /\ Unmounted
  /\ timers = {}
  /\ nextTimerId = 1
  /\ now = 0
  /\ armedAtExit = 0

Init ==
  /\ content \in {ScriptOfWords(n) : n \in 0..MaxWords}
  /\ InitRest

(* ------------------------------ App ----------------------------------- *)
\* the auto-save effect of a render with bullets text h and stored bullets
\* b: setTimeout(..., 1000) if they differ, nothing otherwise
AutosaveArmed(h, b) ==
  IF DiffersFromStored(h, b)
  THEN {[due |-> now + AutoSaveMs, bullets |-> h]}
  ELSE {}

\* handleMemorize(id): the Memorizer is mounted on the script with its
\* initial state, and its effects run (a timeout is armed while the time
\* horizon has room for it)
Memorize(id) ==
  /\ view = "list"
  /\ view' = "memorize"
  /\ activeScriptId' = id
  /\ content' = ScriptOf(id).content
  /\ bulletsHtml' = formatInitialContent(ScriptOf(id).bullets)
  /\ autosaves' = AutosaveArmed(bulletsHtml', ScriptOf(id).bullets)
  /\ \A t \in autosaves' : t.due <= MaxSaveTime
  /\ lastInputAt' = NULL
  /\ words' = Split(content')
  /\ wordIndices' = WordIndicesOf(Split(content'))
  /\ blackedOutCount' = 0
  /\ renderedCount' = 0
  /\ peekIndex' = NULL
  /\ isTiming' = FALSE
  /\ renderedTiming' = FALSE
  /\ elapsed' = 0
  /\ startTimeRef' = 0
  /\ timerIntervalRef' = 0
  /\ peekTimer' = 0
  /\ peekReqAt' = NULL
  /\ peekReqIdx' = NULL
  /\ replacedPeek' = NULL
  /\ runs' = 0
  /\ resetAnswer' = "none"
  /\ armedAtExit' = 0
  /\ saves' = 0
  /\ UNCHANGED <<scripts, unsavedEdit, timers, nextTimerId, now>>

\* a click on Memorize on one of the script cards
handleMemorize == \E id \in ScriptIds : Memorize(id)

CleanupSaveNone(ts) == ts
\* return () => clearTimeout(timer) of the auto-save effect, run before the
\* effect re-runs and at unmount: it clears the timeout the latest run of
\* the effect armed
CleanupSave(ts) == {t \in ts : \E u \in ts : u.due > t.due}

UnmountCleanupPeekOnly(ts) == ClearTimer(ts, peekTimer)
\* the effect cleanups React runs when the Memorizer is unmounted
UnmountCleanup(ts) == ClearTimer(ClearTimer(ts, peekTimer), timerIntervalRef)

\* onExit: setView('list') unmounts the Memorizer
onExit ==
  /\ view = "memorize"
  /\ view' = "list"
  /\ timers' = UnmountCleanup(timers)
  /\ armedAtExit' = Cardinality(timers)
  /\ words' = <<>>
  /\ wordIndices' = <<>>
  /\ blackedOutCount' = 0
  /\ renderedCount' = 0
  /\ peekIndex' = NULL
  /\ isTiming' = FALSE
  /\ renderedTiming' = FALSE
  /\ elapsed' = 0
  /\ startTimeRef' = 0
  /\ timerIntervalRef' = 0
  /\ peekTimer' = 0
  /\ peekReqAt' = NULL
  /\ peekReqIdx' = NULL
  /\ replacedPeek' = NULL
  /\ runs' = 0
  /\ resetAnswer' = "none"
  /\ autosaves' = CleanupSave(autosaves)
  /\ lastInputAt' = NULL
  /\ saves' = 0
  /\ bulletsHtml' = <<>>
  /\ UNCHANGED <<scripts, activeScriptId, unsavedEdit, content, nextTimerId, now>>

(* --------------------------- progress --------------------------------- *)
timerVars == <<isTiming, renderedTiming, elapsed, startTimeRef, timerIntervalRef, runs>>
peekVars == <<peekIndex, peekTimer, peekReqAt, peekReqIdx, replacedPeek>>
fixedVars == <<scripts, activeScriptId, bulletsHtml, unsavedEdit,
               content, view, words, wordIndices, now, armedAtExit,
               autosaves, lastInputAt, saves>>
progressVars == <<blackedOutCount, renderedCount, resetAnswer>>

CanAdvanceAlways == TRUE
\* if (blackedOutCount < totalWords), on the value the closure captured
CanAdvance == renderedCount < totalWords

CanRetreatAlways == TRUE
\* if (blackedOutCount > 0), on the value the closure captured
CanRetreat == renderedCount > 0

PeekDropped == NULL
\* nextStep, prevStep and reset call setBlackedOutCount alone: the peek
\* state is kept
PeekKept == peekIndex

\* the re-render a state update schedules: the closures of the next
\* handlers capture the latest blackedOutCount
Rendered == renderedCount' = blackedOutCount'

\* one call of nextStep: the guard reads the captured count, the updater
\* prev => prev + 1 is applied to the latest one
nextStepCall ==
  /\ view = "memorize"
  /\ blackedOutCount' = IF CanAdvance THEN blackedOutCount + 1 ELSE blackedOutCount
  /\ resetAnswer' = "none"
  /\ peekIndex' = PeekKept
  /\ UNCHANGED <<fixedVars, peekTimer, peekReqAt, peekReqIdx, replacedPeek,
                 timerVars, timers, nextTimerId>>

\* a click on the button: React renders before the next event is handled
nextStep == nextStepCall /\ Rendered

\* one call of prevStep: the guard reads the captured count, the updater
\* prev => prev - 1 is applied to the latest one
prevStepCall ==
  /\ view = "memorize"
  /\ blackedOutCount' = IF CanRetreat THEN blackedOutCount - 1 ELSE blackedOutCount
  /\ resetAnswer' = "none"
  /\ peekIndex' = PeekKept
  /\ UNCHANGED <<fixedVars, peekTimer, peekReqAt, peekReqIdx, replacedPeek,
                 timerVars, timers, nextTimerId>>

prevStep == prevStepCall /\ Rendered

ResetTargetKept == blackedOutCount
\* setBlackedOutCount(0)
ResetTarget == 0

ConfirmIgnored(answer) == TRUE
\* if (window.confirm("Restart from the beginning?"))
Confirmed(answer) == answer

\* window.confirm answers either way
reset ==
  /\ view = "memorize"
  /\ \E answer \in BOOLEAN :
       /\ blackedOutCount' = IF Confirmed(answer) THEN ResetTarget ELSE blackedOutCount
       /\ resetAnswer' = IF answer THEN "accepted" ELSE "declined"
  /\ Rendered
  /\ peekIndex' = PeekKept
  /\ UNCHANGED <<fixedVars, peekTimer, peekReqAt, peekReqIdx, replacedPeek,
                 timerVars, timers, nextTimerId>>

(* ------------------------------ peek ---------------------------------- *)
\* a state setter re-renders, and an effect re-runs, only when the value
\* differs from the current one (Object.is); the peek effect depends on
\* [peekIndex] alone
PeekChangedAlways(idx) == TRUE
PeekChanged(idx) == idx # peekIndex

EffectCleanupNone(ts) == ts
\* return () => clearTimeout(timer), run before the effect re-runs
EffectCleanup(ts) == ClearTimer(ts, peekTimer)

\* setTimeout(() => setPeekIndex(null), 600)
PeekTimeout == [id |-> nextTimerId, kind |-> "timeout", due |-> now + PeekMs]

PeekAllowedAlways(idx) == TRUE
\* onClick={() => { if (blacked) setPeekIndex(idx); }}
PeekAllowed(idx) == isWordBlackedOut(idx)

\* the span's onClick, then the render and the peek effect
ClickWord(idx) ==
  /\ view = "memorize"
  /\ idx \in WordTokens
  /\ IF PeekAllowed(idx)
     THEN /\ peekReqAt' = now
          /\ peekReqIdx' = idx
          /\ IF PeekChanged(idx)
             THEN /\ nextTimerId <= MaxTimerIds
                  /\ peekIndex' = idx
                  /\ replacedPeek' = peekIndex
                  /\ timers' = EffectCleanup(timers) \cup {PeekTimeout}
                  /\ peekTimer' = nextTimerId
                  /\ nextTimerId' = nextTimerId + 1
             ELSE UNCHANGED <<peekIndex, replacedPeek, timers, peekTimer, nextTimerId>>
     ELSE UNCHANGED <<peekVars, timers, nextTimerId>>
  /\ UNCHANGED <<fixedVars, progressVars, timerVars>>

\* a click on any token of the rendered text
onClickWord == \E idx \in 0..(Len(words) - 1) : ClickWord(idx)

\* the timeout callback: setPeekIndex(null), then the render and the effect
\* (cleanup of the previous run; the body arms nothing for null)
PeekExpire ==
  \E t \in Timeouts :
    /\ t.due <= now
    /\ IF view = "memorize" /\ peekIndex # NULL
       THEN /\ peekIndex' = NULL
            /\ timers' = EffectCleanup(timers \ {t})
            /\ peekTimer' = 0
       ELSE /\ timers' = timers \ {t}
            /\ UNCHANGED <<peekIndex, peekTimer>>
    /\ UNCHANGED <<fixedVars, progressVars, timerVars, peekReqAt, peekReqIdx,
                   replacedPeek, nextTimerId>>

(* ------------------------------ timer --------------------------------- *)
StartElapsedKept == elapsed
\* setElapsed(0)
StartElapsed == 0

\* window.setInterval(() => setElapsed(...), 100)
TickInterval == [id |-> nextTimerId, kind |-> "interval", due |-> now + TickMs]

StopClearsNothing(ts) == ts
\* clearInterval(timerIntervalRef.current)
StopClears(ts) == ClearTimer(ts, timerIntervalRef)

\* the re-render a state update schedules: the closure of the next
\* toggleTimer captures the latest isTiming
RenderedTiming == renderedTiming' = isTiming'

\* one call of toggleTimer: if (isTiming) reads the captured value, the refs
\* are read and written in place
toggleTimerCall ==
  /\ view = "memorize"
  /\ IF renderedTiming
     THEN /\ timers' = StopClears(timers)
          /\ isTiming' = FALSE
          /\ UNCHANGED <<elapsed, startTimeRef, timerIntervalRef, nextTimerId, runs>>
     ELSE /\ nextTimerId <= MaxTimerIds
          /\ elapsed' = StartElapsed
          /\ isTiming' = TRUE
          /\ startTimeRef' = now
          /\ timerIntervalRef' = nextTimerId
          /\ timers' = timers \cup {TickInterval}
          /\ nextTimerId' = nextTimerId + 1
          /\ runs' = runs + 1
  /\ UNCHANGED <<fixedVars, progressVars, peekVars>>

\* a click on the button: React renders before the next event is handled
toggleTimer == toggleTimerCall /\ RenderedTiming

TickElapsedSinceEpoch == now
\* (Date.now() - startTimeRef.current) / 1000, kept in milliseconds
TickElapsed == now - startTimeRef

\* the interval callback: setElapsed((Date.now() - startTimeRef.current) / 1000);
\* the interval stays armed for the next period
IntervalTick ==
  \E t \in Intervals :
    /\ t.due <= now
    /\ timers' = (timers \ {t}) \cup {[t EXCEPT !.due = t.due + TickMs]}
    /\ elapsed' = IF view = "memorize" THEN TickElapsed ELSE elapsed
    /\ UNCHANGED <<fixedVars, progressVars, peekVars, isTiming, renderedTiming,
                   startTimeRef, timerIntervalRef, runs, nextTimerId>>

(* ----------------------------- auto-save ------------------------------- *)
IsActiveAlways(s) == TRUE
\* s.id === activeScriptId, in scripts.map(...) of handleSave
IsActive(s) == s.id = activeScriptId

SavedContentDefault(c) == <<>>
\* the content of { ...s, ...scriptData } in handleSave, for the scriptData
\* { ...script, bullets: bulletsHtml } the auto-save passes: the content of
\* the script the Memorizer was rendered with
SavedContent(c) == c

\* the auto-save timeout: onSave({ ...script, bullets: bulletsHtml }), i.e.
\* handleSave with activeScriptId set and view 'memorize'; the Memorizer is
\* re-rendered with the new script record: words is recomputed when
\* script.content differs, the auto-save effect re-runs and arms nothing as
\* the bullets are now equal, the [peekIndex] and [] effects do not re-run
AutosaveFire ==
  /\ view = "memorize"
  /\ \E t \in autosaves :
       /\ t.due <= now
       /\ scripts' = [i \in DOMAIN scripts |->
                        IF IsActive(scripts[i])
                        THEN [id |-> activeScript.id,
                              content |-> SavedContent(activeScript.content),
                              bullets |-> Stored(t.bullets)]
                        ELSE scripts[i]]
       /\ autosaves' = (CleanupSave(autosaves) \ {t})
                         \cup AutosaveArmed(bulletsHtml, Stored(t.bullets))
       /\ unsavedEdit' = (unsavedEdit /\ (lastInputAt = NULL \/ t.bullets # bulletsHtml))
  /\ content' = SavedContent(activeScript.content)
  /\ words' = IF content' = content THEN words ELSE Split(content')
  /\ wordIndices' = IF words' = words THEN wordIndices ELSE WordIndicesOf(words')
  /\ saves' = saves + 1
  /\ UNCHANGED <<activeScriptId, bulletsHtml, lastInputAt, view, now, armedAtExit,
                 progressVars, peekVars, timerVars, timers, nextTimerId>>

\* what the editor's innerHTML can be after an input: a list of up to two
\* items, the first possibly empty
EditTexts ==
  {EmptyList,
   <<"<ul>", "<li>", "a", "</li>", "</ul>">>,
   <<"<ul>", "<li>", "a", "</li>", "<li>", "b", "</li>", "</ul>">>}

\* the auto-save effect after a render with a new bulletsHtml: the cleanup
\* of the previous run clears its timeout, the body arms a new one if the
\* text differs from the stored bullets
Rearmed(h, b) == CleanupSave(autosaves) \cup AutosaveArmed(h, b)

\* onInput={(e) => setBulletsHtml(e.currentTarget.innerHTML)}, then the
\* render and the auto-save effect; a text equal to the current one does
\* not re-render (an input is made while the time horizon has room for its
\* save)
Input(h) ==
  /\ view = "memorize"
  /\ now + AutoSaveMs <= MaxSaveTime
  /\ IF h = bulletsHtml
     THEN UNCHANGED <<bulletsHtml, autosaves, lastInputAt, unsavedEdit>>
     ELSE /\ bulletsHtml' = h
          /\ autosaves' = Rearmed(h, activeScript.bullets)
          /\ lastInputAt' = now
          /\ unsavedEdit' = DiffersFromStored(h, activeScript.bullets)
  /\ UNCHANGED <<scripts, activeScriptId, content, view, words, wordIndices,
                 now, armedAtExit, saves, progressVars, peekVars, timerVars,
                 timers, nextTimerId>>

onInput == \E h \in EditTexts : Input(h)

(* ------------------------------- time --------------------------------- *)
TimePasses ==
  /\ now + TimeStep <= MaxTime
  /\ \A t \in timers : t.due >= now + TimeStep
  /\ \A t \in autosaves : t.due >= now + TimeStep
  /\ now' = now + TimeStep
  /\ UNCHANGED <<scripts, activeScriptId, bulletsHtml, unsavedEdit, content,
                 view, words, wordIndices, progressVars, peekVars, timerVars,
                 timers, nextTimerId, armedAtExit, autosaves, lastInputAt, saves>>

\* time in the bullets editor
SaveTimePasses ==
  /\ now + SaveStep <= MaxSaveTime
  /\ \A t \in timers : t.due >= now + SaveStep
  /\ \A t \in autosaves : t.due >= now + SaveStep
  /\ now' = now + SaveStep
  /\ UNCHANGED <<scripts, activeScriptId, bulletsHtml, unsavedEdit, content,
                 view, words, wordIndices, progressVars, peekVars, timerVars,
                 timers, nextTimerId, armedAtExit, autosaves, lastInputAt, saves>>

(* --------------------------- derived values --------------------------- *)
\* a JavaScript number that is an integer, or NaN
JsInt(n) == [isNaN |-> FALSE, value |-> n]
NaN == [isNaN |-> TRUE, value |-> 0]

\* Math.round of the quotient num / den of naturals, den > 0, away from a tie
Round(num, den) == (2 * num + den) \div (2 * den)

\* Math.round((blackedOutCount / totalWords) * 100); the quotient 0 / 0 is
\* NaN and stays NaN through the product and Math.round
progressPercentage ==
  IF totalWords = 0
    THEN NaN
    ELSE JsInt(Round(100 * blackedOutCount, totalWords))

(* ------------------------------- pace ---------------------------------- *)
\* Math.round of the double nearest to the quotient num / den, den > 0: the
\* nearest integer; the double quotient carries a rounding error (3 words in
\* 1.6 s give 112.49999999999999), so a quotient exactly halfway between two
\* integers comes out as either of them
RoundDouble(num, den) ==
  LET low == num \div den
      rest == num % den
  IN  IF 2 * rest < den THEN {low}
      ELSE IF 2 * rest > den THEN {low + 1}
      ELSE {low, low + 1}

TooShortAtZero(ms) == ms <= 0
\* if (elapsed < 1) return 0, elapsed in seconds
TooShort(ms) == ms < 1000

\* the values wpm can take: Math.round(totalWords / (elapsed / 60))
wpm ==
  IF TooShort(elapsed)
    THEN {0}
    ELSE RoundDouble(totalWords * 60000, elapsed)

TooSlowAt135(w) == w <= 135
\* if (wpm < 135)
TooSlow(w) == w < 135

TooFastAt185(w) == w >= 185
\* if (wpm > 185)
TooFast(w) == w > 185

\* the label of the feedback record
getSpeedFeedback(w) ==
  IF TooSlow(w) THEN "TOO SLOW"
  ELSE IF TooFast(w) THEN "TOO FAST"
  ELSE "SWEET SPOT"

feedback == {getSpeedFeedback(w) : w \in wpm}

(* --------------------------- formatted time ---------------------------- *)
DigitChars == <<"0", "1", "2", "3", "4", "5", "6", "7", "8", "9">>

RECURSIVE NumberToString(_)
\* the decimal digits of a natural number, as a template literal or
\* Number.prototype.toString writes it
NumberToString(n) ==
  IF n < 10 THEN <<DigitChars[n + 1]>>
  ELSE NumberToString(n \div 10) \o <<DigitChars[(n % 10) + 1]>>

RECURSIVE PadStart(_, _, _)
PadStartNone(str, n, c) == str
\* String.prototype.padStart with a one-character filler
PadStart(str, n, c) ==
  IF Len(str) >= n THEN str ELSE PadStart(<<c>> \o str, n, c)

\* formatTime(seconds) for seconds = ms / 1000:
\* mins = Math.floor(seconds / 60), secs = Math.floor(seconds % 60)
formatTime(ms) ==
  LET mins == ms \div 60000
      secs == (ms % 60000) \div 1000
  IN  NumberToString(mins) \o <<":">> \o PadStart(NumberToString(secs), 2, "0")

(* ------------------------------ render -------------------------------- *)
\* const isPeeking = peekIndex === idx
isPeeking(idx) == peekIndex = idx

BlackoutUnlessPeeked(idx) == ~isPeeking(idx)
\* blacked && !isPeeking, the test of the blackout class and of the overlay
Blackout(idx) == isWordBlackedOut(idx) /\ ~isPeeking(idx)

\* the span of the token at idx in words.map: the text colour of its class,
\* and whether the overlay span covers it; a token without a non-space
\* character is a plain span
TokenText(idx) ==
  IF HasNonSpace(words[idx + 1])
    THEN IF Blackout(idx) THEN "text-transparent"
         ELSE IF isPeeking(idx) THEN "text-zinc-400"
         ELSE "text-zinc-100"
    ELSE "inherit"
TokenOverlay(idx) == HasNonSpace(words[idx + 1]) /\ Blackout(idx)

\* {!isTiming && elapsed > 0 && ( ... the WPM and band panel ... )}
FeedbackShown == ~isTiming /\ elapsed > 0

(* --------------------------- specifications --------------------------- *)
Next ==
  \/ handleMemorize
  \/ onExit
  \/ nextStep
  \/ prevStep
  \/ reset
  \/ onClickWord
  \/ PeekExpire
  \/ toggleTimer
  \/ IntervalTick
  \/ TimePasses

Spec == Init /\ [][Next]_vars

\* the full session machine over a store of two scripts of different
\* lengths, either of which can be memorized
ReentryInit ==
  /\ scripts = <<[id |-> 1, content |-> ScriptOfWords(1),
                  bullets |-> Stored(EmptyList)],
                 [id |-> 2, content |-> ScriptOfWords(MaxWords),
                  bullets |-> Stored(EmptyList)]>>
  /\ content = scripts[1].content
  /\ activeScriptId = NULL
  /\ unsavedEdit = FALSE
  /\ view = "list"
  /\ Unmounted
  /\ timers = {}
  /\ nextTimerId = 1
  /\ now = 0
  /\ armedAtExit = 0

ReentrySpec == ReentryInit /\ [][Next]_vars

\* the stored bullets of a script: absent, empty, plain text of one or two
\* lines, or a list saved by an earlier session
BulletValues ==
  {Absent, Stored(<<>>), Stored(<<"a">>), Stored(<<"a", "\n", "b">>),
   Stored(EmptyList), Stored(<<"<ul>", "<li>", "a", "</li>", "</ul>">>)}

\* the bullets editor over a store of two scripts
BulletsInit ==
  /\ \E b1 \in BulletValues, b2 \in BulletValues :
       scripts = <<[id |-> 1, content |-> ScriptOfWords(1), bullets |-> b1],
                   [id |-> 2, content |-> ScriptOfWords(2), bullets |-> b2]>>
  /\ content = scripts[1].content
  /\ activeScriptId = NULL
  /\ unsavedEdit = FALSE
  /\ view = "list"
  /\ Unmounted
  /\ timers = {}
  /\ nextTimerId = 1
  /\ now = 0
  /\ armedAtExit = 0

BulletsNext ==
  \/ handleMemorize
  \/ onExit
  \/ onInput
  \/ AutosaveFire
  \/ nextStep
  \/ prevStep
  \/ SaveTimePasses

BulletsSpec == BulletsInit /\ [][BulletsNext]_vars

\* the browser runs a due timeout and time goes on; the user need not act
BulletsFairSpec ==
  BulletsSpec /\ WF_vars(AutosaveFire) /\ WF_vars(SaveTimePasses)

\* tokenizer and progress alone, over every script content of the alphabet up
\* to MaxTextLen and the scenario script
ProgressInit ==
  /\ content \in StringsOver(Alphabet, MaxTextLen) \cup {ScenarioText}
  /\ InitRest

ProgressNext ==
  \/ handleMemorize
  \/ onExit
  \/ nextStep
  \/ prevStep
  \/ reset

ProgressSpec == ProgressInit /\ [][ProgressNext]_vars

\* calls of nextStep and prevStep handled before the component re-renders:
\* each call runs against the closure of the latest render
PendingCalls ==
  IF blackedOutCount >= renderedCount THEN blackedOutCount - renderedCount
  ELSE renderedCount - blackedOutCount

nextStepBatched == PendingCalls < MaxBatch /\ nextStepCall /\ UNCHANGED renderedCount

prevStepBatched == PendingCalls < MaxBatch /\ prevStepCall /\ UNCHANGED renderedCount

\* the render of the queued updates
Render ==
  /\ view = "memorize"
  /\ renderedCount # blackedOutCount \/ renderedTiming # isTiming
  /\ renderedCount' = blackedOutCount
  /\ renderedTiming' = isTiming
  /\ UNCHANGED <<fixedVars, blackedOutCount, resetAnswer, peekVars, isTiming,
                 elapsed, startTimeRef, timerIntervalRef, runs, timers,
                 nextTimerId>>

BatchNext ==
  \/ handleMemorize
  \/ onExit
  \/ nextStepBatched
  \/ prevStepBatched
  \/ Render

BatchSpec == ProgressInit /\ [][BatchNext]_vars

\* the session without the pace timer: progress, peeks and their expiry
PeekNext ==
  \/ handleMemorize
  \/ onExit
  \/ nextStep
  \/ prevStep
  \/ reset
  \/ onClickWord
  \/ PeekExpire
  \/ TimePasses

PeekSpec == Init /\ [][PeekNext]_vars

\* a session of the Memorizer with the bullets panel, on a script of fewer
\* than MaxWords words, mounted 800 ms ago and untouched since: the auto-save
\* timeout armed at mount (the formatted bullets differ from the stored
\* ones) is due in two time steps
SaveInit ==
  /\ content \in {ScriptOfWords(n) : n \in 1..(MaxWords - 1)}
  /\ view = "memorize"
  /\ words = Split(content)
  /\ wordIndices = WordIndicesOf(words)
  /\ blackedOutCount = 0
  /\ renderedCount = 0
  /\ peekIndex = NULL
  /\ peekTimer = 0
  /\ peekReqAt = NULL
  /\ peekReqIdx = NULL
  /\ replacedPeek = NULL
  /\ resetAnswer = "none"
  /\ isTiming = FALSE
  /\ renderedTiming = FALSE
  /\ elapsed = 0
  /\ startTimeRef = 0
  /\ timerIntervalRef = 0
  /\ runs = 0
  /\ now = 0
  /\ nextTimerId = 1
  /\ timers = {}
  /\ armedAtExit = 0
  /\ autosaves = {[due |-> 2 * TimeStep, bullets |-> formatInitialContent(Absent)]}
  /\ lastInputAt = NULL
  /\ saves = 0
  /\ MountedOn(Absent)

SaveNext ==
  \/ AutosaveFire
  \/ onExit
  \/ nextStep
  \/ prevStep
  \/ reset
  \/ onClickWord
  \/ PeekExpire
  \/ toggleTimer
  \/ IntervalTick
  \/ TimePasses

SaveSpec == SaveInit /\ [][SaveNext]_vars

\* the session without peeks and progress: the pace timer alone
TimerNext ==
  \/ handleMemorize
  \/ onExit
  \/ toggleTimer
  \/ IntervalTick
  \/ TimePasses

TimerSpec == Init /\ [][TimerNext]_vars

\* calls of toggleTimer handled before the component re-renders: each call
\* runs against the closure of the latest render
toggleTimerBatched == toggleTimerCall /\ UNCHANGED renderedTiming

\* every update is rendered before the next task (a timer callback, the
\* next event) runs
Settled == renderedTiming = isTiming /\ renderedCount = blackedOutCount

TimerBatchNext ==
  \/ toggleTimerBatched
  \/ Render
  \/ Settled /\ handleMemorize
  \/ Settled /\ onExit
  \/ Settled /\ IntervalTick
  \/ Settled /\ TimePasses

TimerBatchSpec == Init /\ [][TimerBatchNext]_vars

\* the pace figures of a session whose timer was stopped after one run: the
\* script has up to MaxPaceWords words and the last tick wrote up to
\* MaxTenths tenths of a second
PaceInit ==
  /\ content \in {ScriptOfWords(n) : n \in 0..MaxPaceWords}
  /\ view = "memorize"
  /\ words = Split(content)
  /\ wordIndices = WordIndicesOf(words)
  /\ blackedOutCount = 0
  /\ renderedCount = 0
  /\ peekIndex = NULL
  /\ peekTimer = 0
  /\ peekReqAt = NULL
  /\ peekReqIdx = NULL
  /\ replacedPeek = NULL
  /\ resetAnswer = "none"
  /\ isTiming = FALSE
  /\ renderedTiming = FALSE
  /\ elapsed \in {TickMs * k : k \in 0..MaxTenths}
  /\ startTimeRef = 0
  /\ now = elapsed
  /\ timerIntervalRef = 1
  /\ nextTimerId = 2
  /\ runs = 1
  /\ timers = {}
  /\ armedAtExit = 0
  /\ autosaves = {}
  /\ lastInputAt = NULL
  /\ saves = 0
  /\ MountedOn(Stored(EmptyList))

\* the formatted time of a session whose timer was stopped after one run of
\* up to MaxFormatSeconds seconds, ended right after a whole second or nine
\* tenths later
FormatInit ==
  /\ content = ScriptOfWords(1)
  /\ view = "memorize"
  /\ words = Split(content)
  /\ wordIndices = WordIndicesOf(words)
  /\ blackedOutCount = 0
  /\ renderedCount = 0
  /\ peekIndex = NULL
  /\ peekTimer = 0
  /\ peekReqAt = NULL
  /\ peekReqIdx = NULL
  /\ replacedPeek = NULL
  /\ resetAnswer = "none"
  /\ isTiming = FALSE
  /\ renderedTiming = FALSE
  /\ elapsed \in {1000 * sec + TickMs * tenth :
                    sec \in 0..MaxFormatSeconds, tenth \in {0, 9}}
  /\ startTimeRef = 0
  /\ now = elapsed
  /\ timerIntervalRef = 1
  /\ nextTimerId = 2
  /\ runs = 1
  /\ timers = {}
  /\ armedAtExit = 0
  /\ autosaves = {}
  /\ lastInputAt = NULL
  /\ saves = 0
  /\ MountedOn(Stored(EmptyList))

PaceNext ==
  \/ toggleTimer
  \/ onExit
  \/ handleMemorize

PaceSpec == PaceInit /\ [][PaceNext]_vars

FormatSpec == FormatInit /\ [][PaceNext]_vars

(* ------------------------------ claims -------------------------------- *)
\* rank of a word token: the number of word tokens before it in text order
RankOf(idx) == Cardinality({j \in WordTokens : j < idx})

\* C1: under every sequence of nextStep, prevStep and reset calls,
\* 0 <= blackedOutCount <= totalWords; prevStep at 0 leaves it at 0 and
\* nextStep at totalWords leaves it at totalWords.
C1_BlackedOutCountClamped ==
  /\ [](0 <= blackedOutCount /\ blackedOutCount <= totalWords)
  /\ [][/\ (prevStep /\ blackedOutCount = 0) => blackedOutCount' = 0
        /\ (nextStep /\ blackedOutCount = totalWords)
             => blackedOutCount' = totalWords]_vars

C1_Witness ==
  /\ view = "memorize"
  /\ totalWords >= 2
  /\ blackedOutCount = totalWords

\* C2: a word token is blacked out iff its rank is below blackedOutCount, and
\* the number of blacked-out tokens is blackedOutCount.
C2_HiddenIffRankBelowCount ==
  view = "memorize" =>
    /\ \A idx \in WordTokens : isWordBlackedOut(idx) <=> RankOf(idx) < blackedOutCount
    /\ Cardinality({idx \in 0..(Len(words) - 1) : isWordBlackedOut(idx)})
         = blackedOutCount

C2_Witness ==
  /\ view = "memorize"
  /\ words[1] = <<>>
  /\ 0 < blackedOutCount
  /\ blackedOutCount < totalWords

\* C3: concatenating the tokens of content.split(/(\s+)/) in order yields the
\* content, for every content.
C3_TokensConcatToContent ==
  view = "memorize" => Concat(words) = content

C3_Witness ==
  /\ view = "memorize"
  /\ Len(words) = 5
  /\ words[1] = <<>>
  /\ words[5] = <<>>
  /\ Len(words[2]) = 2

\* C4: a peek requested on a hidden word B while the peek of a different
\* hidden word A is pending leaves B peeked, A not peeked, and exactly one
\* expiry armed, due 600 ms after the request.
C4_PeekReplacesPendingPeek ==
  [][LET B == peekReqIdx'
     IN (/\ peekIndex # NULL
         /\ Timeouts # {}
         /\ B # NULL
         /\ B # peekIndex
         /\ isWordBlackedOut(peekIndex)
         /\ isWordBlackedOut(B)
         /\ ClickWord(B))
        => /\ peekIndex' = B
           /\ Timeouts' = {[id |-> nextTimerId, kind |-> "timeout",
                            due |-> now + PeekMs]}]_vars

C4_Witness ==
  /\ view = "memorize"
  /\ peekIndex # NULL
  /\ replacedPeek # NULL
  /\ replacedPeek # peekIndex
  /\ isWordBlackedOut(peekIndex)
  /\ isWordBlackedOut(replacedPeek)
  /\ Cardinality(Timeouts) = 1

\* C5: the word of the latest peek request is peeked at every time before
\* 600 ms after that request, and is not peeked after them.
C5_PeekedFor600Ms ==
  (view = "memorize" /\ peekReqAt # NULL) =>
    /\ now < peekReqAt + PeekMs => peekIndex = peekReqIdx
    /\ now > peekReqAt + PeekMs => peekIndex # peekReqIdx

\* C6: every peek request made while a peek is pending, on the same word or on
\* another, cancels the pending expiry and arms one 600 ms after the request.
C6_EveryRequestRestartsExpiry ==
  [][LET idx == peekReqIdx'
     IN (/\ peekIndex # NULL
         /\ Timeouts # {}
         /\ idx # NULL
         /\ isWordBlackedOut(idx)
         /\ ClickWord(idx))
        => /\ peekIndex' = idx
           /\ \A t \in Timeouts' : t.due = now + PeekMs
           /\ Timeouts' \cap Timeouts = {}
           /\ Cardinality(Timeouts') = 1]_vars

\* C7: at most one peek expiry is armed, and the expiry that clears a peek is
\* the one armed by the latest peek request, never one armed by an earlier
\* request.
C7_OnlyLatestExpiryFires ==
  /\ [](Cardinality(Timeouts) <= 1)
  /\ [][(PeekExpire /\ peekIndex # NULL /\ peekIndex' = NULL)
          => \A t \in Timeouts \ Timeouts' : t.due = peekReqAt + PeekMs]_vars

\* C8: stopping a running timer at time t freezes elapsed at t - startedAt.
C8_StopFreezesNowMinusStart ==
  [][(toggleTimer /\ isTiming) => elapsed' = now - startTimeRef]_vars

\* C9: every start sets elapsed to 0 and the start time to the current time
\* before any tick, and a tick measures from the start of the current run:
\* elapsed never includes time of an earlier run.
C9_StartResetsElapsed ==
  /\ [][(toggleTimer /\ ~isTiming)
          => /\ elapsed' = 0
             /\ startTimeRef' = now
             /\ \A t \in Intervals' : t.due > now]_vars
  /\ [][(IntervalTick /\ view = "memorize") => elapsed' = now - startTimeRef]_vars
  /\ [](isTiming => elapsed <= now - startTimeRef)

C9_Witness ==
  /\ view = "memorize"
  /\ runs = 2
  /\ isTiming
  /\ startTimeRef > 0
  /\ elapsed = now - startTimeRef
  /\ elapsed > 0

\* C10: once the Memorizer is unmounted no peek timeout and no tick interval
\* is armed, whatever was armed at exit.
C10_NoTimerArmedAfterExit ==
  view = "list" => timers = {}

C10_Witness ==
  /\ view = "list"
  /\ armedAtExit = 2
  /\ timers = {}

\* C11: in every state the progress value is a defined number between 0 and
\* 100 percent, the percentage of blackedOutCount / totalWords when there are
\* words and 0 when there are none.
C11_ProgressDefinedInRange ==
  view = "memorize" =>
    /\ ~progressPercentage.isNaN
    /\ progressPercentage.value \in 0..100
    /\ totalWords = 0 => progressPercentage.value = 0
    /\ totalWords > 0 =>
         LET d == progressPercentage.value * totalWords - 100 * blackedOutCount
         IN  2 * d <= totalWords /\ 2 * (0 - d) <= totalWords

C13_ResetAlwaysZero ==
  [][reset => /\ blackedOutCount' = 0
              /\ \A idx \in WordTokens : ~isWordBlackedOut(idx)']_vars

\* C13: after a reset call whose confirmation the user accepts,
\* blackedOutCount is 0 and every word is visible, from every state of a
\* session; a reset whose confirmation is declined changes no state.
C13_AcceptedResetZero ==
  [][reset =>
       /\ resetAnswer' = "accepted" =>
            /\ blackedOutCount' = 0
            /\ \A idx \in WordTokens : ~isWordBlackedOut(idx)'
       /\ resetAnswer' = "declined" =>
            UNCHANGED <<blackedOutCount, fixedVars, peekVars, timerVars, timers>>]_vars

\* an accepted reset has emptied the count while a peek on a word hidden
\* before it is still pending and the timer runs
C13_Witness ==
  /\ resetAnswer = "accepted"
  /\ blackedOutCount = 0
  /\ peekIndex # NULL
  /\ isTiming

\* C14: a peek request on a word that is not hidden changes neither peekIndex
\* nor the pending expiry: a step that sets peekIndex to a word, or arms an
\* expiry, does so for a word whose rank is below blackedOutCount when the
\* request is made.
C14_VisibleWordPeekIgnored ==
  [][(view = "memorize" /\ view' = "memorize") =>
       /\ (peekIndex' # peekIndex /\ peekIndex' # NULL) =>
            /\ peekIndex' \in WordTokens
            /\ RankOf(peekIndex') < blackedOutCount
       /\ (peekTimer' # peekTimer /\ peekTimer' # 0) =>
            /\ peekIndex' \in WordTokens
            /\ RankOf(peekIndex') < blackedOutCount
       /\ (peekReqAt' # peekReqAt \/ peekReqIdx' # peekReqIdx) =>
            RankOf(peekReqIdx') < blackedOutCount]_vars

\* a hidden word is being peeked while another word is visible and can be
\* clicked
C14_Witness ==
  /\ view = "memorize"
  /\ peekIndex # NULL
  /\ RankOf(peekIndex) < blackedOutCount
  /\ blackedOutCount < totalWords
  /\ \E t \in Timeouts : t.id = peekTimer

\* C20: every word is rendered in exactly one of two ways: blacked out
\* (transparent text under the overlay) iff it is hidden and not the peeked
\* word, legible (coloured text, no overlay) otherwise, also when peekIndex
\* points at a word that is no longer hidden; a separator is never blacked
\* out.
C20_RenderByHiddenAndPeeking ==
  view = "memorize" =>
    \A idx \in 0..(Len(words) - 1) :
      LET opaque == TokenText(idx) = "text-transparent" /\ TokenOverlay(idx)
          legible == TokenText(idx) # "text-transparent" /\ ~TokenOverlay(idx)
          hidden == idx \in WordTokens /\ RankOf(idx) < blackedOutCount
      IN  /\ opaque # legible
          /\ opaque <=> (hidden /\ peekIndex # idx)
          /\ idx \notin WordTokens => legible

\* peekIndex still points at a word that a retreat or a reset made visible
C20_Witness ==
  /\ view = "memorize"
  /\ peekIndex \in WordTokens
  /\ RankOf(peekIndex) >= blackedOutCount
  /\ \E idx \in WordTokens : RankOf(idx) < blackedOutCount

\* C15: for every number of words and every elapsed time in tenths of a
\* second, wpm is 0 below one second and otherwise an integer nearest to
\* totalWords / (elapsed / 60); it is a natural number in every case.
C15_WpmRoundedOrZero ==
  view = "memorize" =>
    /\ wpm # {}
    /\ \A w \in wpm :
         /\ w \in Nat
         /\ elapsed < 1000 => w = 0
         /\ elapsed >= 1000 =>
              /\ 2 * (w * elapsed - 60000 * totalWords) <= elapsed
              /\ 2 * (60000 * totalWords - w * elapsed) <= elapsed

\* half a second measured on a script with words: the quotient would be
\* 120 times the number of words
C15_Witness ==
  /\ view = "memorize"
  /\ totalWords = MaxPaceWords
  /\ elapsed = 500
  /\ ~isTiming
  /\ wpm = {0}

\* C16: every wpm is classified TOO SLOW iff below 135, TOO FAST iff above
\* 185 and SWEET SPOT iff from 135 to 185, one label each; 134 is too slow,
\* 135 and 185 are in the sweet spot, 186 is too fast.
C16_ClassificationBands ==
  /\ getSpeedFeedback(134) = "TOO SLOW"
  /\ getSpeedFeedback(135) = "SWEET SPOT"
  /\ getSpeedFeedback(185) = "SWEET SPOT"
  /\ getSpeedFeedback(186) = "TOO FAST"
  /\ view = "memorize" =>
       \A w \in wpm :
         /\ getSpeedFeedback(w) \in {"TOO SLOW", "SWEET SPOT", "TOO FAST"}
         /\ getSpeedFeedback(w) = "TOO SLOW" <=> w < 135
         /\ getSpeedFeedback(w) = "TOO FAST" <=> w > 185
         /\ getSpeedFeedback(w) = "SWEET SPOT" <=> (135 <= w /\ w <= 185)

\* a stopped run measured at exactly 135 words per minute (9 words in 4 s)
C16_Witness ==
  /\ view = "memorize"
  /\ ~isTiming
  /\ elapsed > 0
  /\ wpm = {135}
  /\ feedback = {"SWEET SPOT"}

\* C17: a session starts with nothing hidden and every advance below
\* totalWords hides exactly one more word, so n = totalWords advances reach
\* blackedOutCount = n, where progress is 100 percent and every word is
\* hidden; a further advance changes no state of the session.  The script
\* "Hello   world\nfoo" is split into the five tokens Hello, three spaces,
\* world, a newline, foo, and has n = 3.
C17_AllAdvancesReachFullProgress ==
  /\ [](view = "memorize" =>
         /\ (totalWords > 0 /\ blackedOutCount = totalWords) =>
              /\ progressPercentage = JsInt(100)
              /\ \A idx \in WordTokens : isWordBlackedOut(idx)
         /\ content = ScenarioText =>
              /\ words = <<SubSeq(content, 1, 5), SubSeq(content, 6, 8),
                           SubSeq(content, 9, 13), SubSeq(content, 14, 14),
                           SubSeq(content, 15, 17)>>
              /\ wordIndices = <<0, 2, 4>>
              /\ totalWords = 3)
  /\ [][/\ handleMemorize => blackedOutCount' = 0
        /\ nextStep =>
             IF blackedOutCount < totalWords
               THEN blackedOutCount' = blackedOutCount + 1
               ELSE UNCHANGED <<blackedOutCount, fixedVars, peekVars,
                                timerVars, timers, nextTimerId>>]_vars

\* the scenario script after its three advances
C17_Witness ==
  /\ view = "memorize"
  /\ content = ScenarioText
  /\ blackedOutCount = 3
  /\ progressPercentage = JsInt(100)

\* C18: every token is a non-empty run of characters that are all
\* whitespace or all non-whitespace, and neighbouring tokens are of
\* different kinds, for every script content.
C18_NoEmptyToken ==
  view = "memorize" =>
    /\ \A i \in 1..Len(words) :
         /\ Len(words[i]) > 0
         /\ \/ \A k \in 1..Len(words[i]) : IsSpace(words[i][k])
            \/ \A k \in 1..Len(words[i]) : ~IsSpace(words[i][k])
    /\ \A i \in 1..(Len(words) - 1) :
         HasNonSpace(words[i]) # HasNonSpace(words[i + 1])

\* positions of content where a maximal run of non-whitespace begins
RunStarts(s) ==
  {i \in 1..Len(s) : ~IsSpace(s[i]) /\ (i = 1 \/ IsSpace(s[i - 1]))}

\* C19: totalWords is the number of maximal non-whitespace runs of the
\* content, 0 for an empty or whitespace-only content; wordIndices lists
\* exactly the token indices of those runs, in strictly ascending order.
C19_WordIndicesAreTheRuns ==
  view = "memorize" =>
    /\ totalWords = Cardinality(RunStarts(content))
    /\ (\A i \in 1..Len(content) : IsSpace(content[i])) => totalWords = 0
    /\ \A i \in 1..(Len(wordIndices) - 1) : wordIndices[i] < wordIndices[i + 1]
    /\ \A i \in 1..Len(wordIndices) :
         /\ wordIndices[i] \in 0..(Len(words) - 1)
         /\ \A k \in 1..Len(words[wordIndices[i] + 1]) :
              ~IsSpace(words[wordIndices[i] + 1][k])
         /\ Len(words[wordIndices[i] + 1]) > 0
    /\ \A idx \in 0..(Len(words) - 1) :
         (\E k \in 1..Len(words[idx + 1]) : ~IsSpace(words[idx + 1][k])) =>
           \E i \in 1..Len(wordIndices) : wordIndices[i] = idx

\* a content that starts with whitespace and has two words: the words are
\* the tokens 2 and 4
C19_Witness ==
  /\ view = "memorize"
  /\ Len(content) = 4
  /\ IsSpace(content[1])
  /\ wordIndices = <<2, 4>>

\* C21: a toggle of a stopped timer makes it running and arms the tick
\* interval; a toggle of a running timer makes it stopped and cancels the
\* interval.  A session starts stopped and within a session isTiming changes
\* only by a toggle, each toggle inverting it, so the flag alternates; the
\* interval is armed exactly while the timer is running.
C21_ToggleAlternates ==
  /\ [][handleMemorize => ~isTiming']_vars
  /\ [][toggleTimer =>
          /\ isTiming' = ~isTiming
          /\ isTiming' => \E t \in Intervals' : t.id = timerIntervalRef'
          /\ ~isTiming' => Intervals' = {}]_vars
  /\ [][(view = "memorize" /\ view' = "memorize" /\ isTiming' # isTiming)
          => toggleTimer]_vars
  /\ [](view = "memorize" =>
          (isTiming <=> \E t \in Intervals : t.id = timerIntervalRef))
  /\ [](Cardinality(Intervals) <= 1)

\* the timer of a session was started, stopped and started again
C21_Witness ==
  /\ view = "memorize"
  /\ isTiming
  /\ runs = 2
  /\ \E t \in Intervals : t.id = timerIntervalRef

\* C22: a start request that arrives when the timer is already running (a
\* second click at the instant of the first, before any tick) is a no-op:
\* isTiming, the start time and elapsed are unchanged, so the duplicated
\* event does not stop the run.
C22_DuplicateStartIsNoop ==
  [][(toggleTimer /\ isTiming /\ startTimeRef = now /\ elapsed = 0)
       => UNCHANGED <<isTiming, startTimeRef, elapsed>>]_vars

\* C23: while the timer is stopped no tick interval is armed and no tick
\* fires; a stop keeps the elapsed value of the last tick, and elapsed does
\* not change from then until the next start, so wpm and the label read the
\* same value throughout.
C23_ElapsedFrozenWhileStopped ==
  /\ [](view = "memorize" /\ ~isTiming => Intervals = {})
  /\ [][IntervalTick => isTiming]_vars
  /\ [][(toggleTimer /\ isTiming) => elapsed' = elapsed]_vars
  /\ [][(view = "memorize" /\ view' = "memorize" /\ ~isTiming /\ ~isTiming')
          => /\ elapsed' = elapsed
             /\ wpm' = wpm
             /\ feedback' = feedback]_vars

\* a run stopped after a tick, with time gone by since the stop
C23_Witness ==
  /\ view = "memorize"
  /\ ~isTiming
  /\ elapsed > 0
  /\ now > startTimeRef + elapsed

\* C27: while the timer runs every tick sets elapsed to now - startedAt of
\* the current run, so that from a start to the next stop elapsed never
\* decreases, never exceeds the time since the start, and right after a tick
\* is less than one tick period (100 ms) behind it.
C27_TickTracksTimeSinceStart ==
  /\ [][(IntervalTick /\ view = "memorize") =>
          /\ elapsed' = now' - startTimeRef'
          /\ (now' - startTimeRef') - elapsed' < TickMs]_vars
  /\ [][(isTiming /\ isTiming' /\ startTimeRef' = startTimeRef /\ runs' = runs)
          => elapsed' >= elapsed]_vars
  /\ [](view = "memorize" /\ isTiming =>
          /\ elapsed <= now - startTimeRef
          /\ elapsed >= 0)

\* the second run of a session, started after time 0, has ticked twice
C27_Witness ==
  /\ view = "memorize"
  /\ isTiming
  /\ startTimeRef > 0
  /\ elapsed = 2 * TickMs
  /\ elapsed = now - startTimeRef

\* C24: isWordBlackedOut is false, whatever blackedOutCount is, for every
\* index that is not the token index of a word: a negative index, an index
\* past the last token, the index of a whitespace token or of an empty
\* token; it is a Boolean for every index.
C24_NotBlackedOutOffWords ==
  view = "memorize" =>
    \A idx \in (0 - 2)..(Len(words) + 1) :
      /\ isWordBlackedOut(idx) \in BOOLEAN
      /\ (\/ idx < 0
          \/ idx >= Len(words)
          \/ \A k \in 1..Len(words[idx + 1]) : IsSpace(words[idx + 1][k]))
           => ~isWordBlackedOut(idx)

\* every word hidden in a content with an empty first token, a whitespace
\* token and a word
C24_Witness ==
  /\ view = "memorize"
  /\ Len(words) >= 3
  /\ words[1] = <<>>
  /\ blackedOutCount = totalWords
  /\ totalWords > 0

\* the number written by a sequence of decimal digits
RECURSIVE NumberOf(_)
NumberOf(str) ==
  IF str = <<>> THEN 0
  ELSE 10 * NumberOf(SubSeq(str, 1, Len(str) - 1))
       + (CHOOSE d \in 0..9 : DigitChars[d + 1] = str[Len(str)])

\* C25: for every elapsed time, formatTime writes the whole minutes without
\* padding and without wrapping at 60, a colon, and the whole seconds of the
\* current minute on exactly two digits, from 00 to 59; there is no hour
\* part.
C25_FormatTimeMinutesSeconds ==
  view = "memorize" =>
    LET text == formatTime(elapsed)
        n == Len(text)
        digits == {DigitChars[d] : d \in 1..10}
        minutes == SubSeq(text, 1, n - 3)
        seconds == SubSeq(text, n - 1, n)
    IN  /\ n >= 4
        /\ text[n - 2] = ":"
        /\ \A k \in (1..n) \ {n - 2} : text[k] \in digits
        /\ Len(minutes) > 1 => minutes[1] # "0"
        /\ NumberOf(minutes) * 60 + NumberOf(seconds) = elapsed \div 1000
        /\ NumberOf(seconds) \in 0..59

\* a stopped run of one hour, one minute and 1.9 seconds, shown as 61:01
C25_Witness ==
  /\ view = "memorize"
  /\ ~isTiming
  /\ elapsed = 3661900
  /\ formatTime(elapsed) = <<"6", "1", ":", "0", "1">>

\* C26: the token sequence, the word indices and hence totalWords never
\* change within a session, whatever operation or callback runs (advance,
\* retreat, reset, peek, peek expiry, timer toggle, tick, bullets auto-save);
\* the auto-save, which replaces the script record with the same content,
\* leaves blackedOutCount, peekIndex, the pending peek expiry and the timer
\* as they are.
C26_TokensFixedInSession ==
  /\ [][(view = "memorize" /\ view' = "memorize") =>
          /\ words' = words
          /\ wordIndices' = wordIndices
          /\ content' = content]_vars
  /\ [][AutosaveFire =>
          UNCHANGED <<blackedOutCount, peekIndex, peekTimer, isTiming, elapsed,
                      startTimeRef, timerIntervalRef, timers>>]_vars
  /\ [](view = "memorize" =>
          words = Split(content) /\ wordIndices = WordIndicesOf(words))

\* the auto-save has replaced the script record while a word was hidden, a
\* peek requested before it was pending and the timer was running
C26_Witness ==
  /\ view = "memorize"
  /\ saves = 1
  /\ blackedOutCount > 0
  /\ peekIndex # NULL
  /\ peekReqAt < 2 * TimeStep
  /\ isTiming
  /\ startTimeRef < 2 * TimeStep

\* C28: progress, peek and timer do not touch each other.  An advance, a
\* retreat and a reset leave peekIndex, the pending peek expiry, isTiming,
\* the start time and elapsed unchanged, also when the peeked word becomes
\* visible; a peek request and a peek expiry leave blackedOutCount and the
\* timer unchanged; a timer toggle and a tick leave blackedOutCount and
\* peekIndex unchanged.  Stated per step of a session: a step that changes
\* one of the three sub-states changes neither of the other two.
C28_SubStatesIndependent ==
  [][(view = "memorize" /\ view' = "memorize") =>
       LET progressStep == \/ blackedOutCount' # blackedOutCount
                           \/ resetAnswer' # resetAnswer
           peekStep == \/ peekIndex' # peekIndex
                       \/ peekTimer' # peekTimer
                       \/ peekReqAt' # peekReqAt
                       \/ Timeouts' # Timeouts
           timerStep == \/ isTiming' # isTiming
                        \/ elapsed' # elapsed
                        \/ startTimeRef' # startTimeRef
                        \/ timerIntervalRef' # timerIntervalRef
                        \/ Intervals' # Intervals
       IN  /\ progressStep => ~peekStep /\ ~timerStep
           /\ peekStep => ~progressStep /\ ~timerStep
           /\ timerStep => ~progressStep /\ ~peekStep]_vars

\* a retreat has made the peeked word visible: the peek and its expiry are
\* still pending, and the timer still runs
C28_Witness ==
  /\ view = "memorize"
  /\ peekIndex \in WordTokens
  /\ RankOf(peekIndex) >= blackedOutCount
  /\ \E t \in Timeouts : t.id = peekTimer
  /\ isTiming
  /\ elapsed > 0

\* C29: a reset whose confirmation is declined leaves the whole session
\* state unchanged (blackedOutCount, the peek and its expiry, the timer); a
\* reset whose confirmation is accepted sets blackedOutCount to 0 and
\* changes nothing else.
C29_ResetGatedByConfirmation ==
  [][reset =>
       /\ UNCHANGED <<content, view, words, wordIndices, peekIndex, peekTimer,
                      isTiming, elapsed, startTimeRef, timerIntervalRef,
                      timers, now>>
       /\ resetAnswer' \in {"accepted", "declined"}
       /\ resetAnswer' = "declined" => blackedOutCount' = blackedOutCount
       /\ resetAnswer' = "accepted" => blackedOutCount' = 0]_vars

\* a reset was declined with a word hidden, a peek pending and the timer
\* running
C29_Witness ==
  /\ view = "memorize"
  /\ resetAnswer = "declined"
  /\ blackedOutCount > 0
  /\ peekIndex # NULL
  /\ isTiming

\* C30: the guards of nextStep and prevStep read the blackedOutCount of the
\* latest render while the update is applied to the latest value; with two
\* or more calls handled on one render, blackedOutCount is claimed to stay
\* within 0..totalWords.  The guard of every call of a batch passes on the
\* same captured value, so the second call made one word before the end
\* (or one word after the start) takes the count out of the range.
C30_BoundsHoldUnderBatching ==
  view = "memorize" => (blackedOutCount >= 0 /\ blackedOutCount <= totalWords)

\* C31: at most one tick interval is armed, one is armed exactly when the
\* timer runs, and its handle is the one in timerIntervalRef, also when
\* toggleTimer is called twice on one render.  Two calls on a render with
\* isTiming false both take the start branch: the second overwrites
\* timerIntervalRef and the first interval stays armed, out of reach of a
\* stop and of the teardown.
C31_OneIntervalIffRunning ==
  /\ Cardinality(Intervals) <= 1
  /\ (view = "memorize" /\ isTiming) <=> Intervals # {}
  /\ \A t \in Intervals : t.id = timerIntervalRef

\* C32: the pace feedback is never shown while the timer runs, it is not
\* shown before the first run of a session, and it is shown after every stop
\* of a running timer, however short the run.  The panel is rendered on
\* elapsed > 0, and elapsed is written by the ticks alone: a run stopped
\* before its first tick leaves elapsed at 0 and the panel hidden.
C32_FeedbackAfterEveryStop ==
  /\ [](view = "memorize" /\ (isTiming \/ runs = 0) => ~FeedbackShown)
  /\ [][(view = "memorize" /\ isTiming /\ ~isTiming' /\ view' = "memorize")
          => FeedbackShown']_vars

\* C33: every session begins in the same state, whatever the state in which
\* the previous session, on the same or on another script, ended: a step
\* that enters the memorize view leaves blackedOutCount at 0, no word
\* peeked, no peek timeout and no tick interval armed, the timer stopped and
\* elapsed at 0, and the tokens are those of the script entered.
C33_SessionStartsFresh ==
  [][(view = "list" /\ view' = "memorize") =>
       /\ blackedOutCount' = 0
       /\ peekIndex' = NULL
       /\ peekTimer' = 0
       /\ timers' = {}
       /\ ~isTiming'
       /\ elapsed' = 0
       /\ startTimeRef' = 0
       /\ timerIntervalRef' = 0
       /\ words' = Split(ScriptOf(activeScriptId').content)]_vars

\* a session on the second script in which no timer was armed and nothing
\* is hidden, entered after sessions that armed every timer id
C33_Witness ==
  /\ view = "memorize"
  /\ activeScriptId = 2
  /\ nextTimerId > MaxTimerIds
  /\ runs = 0
  /\ peekReqAt = NULL
  /\ blackedOutCount = 0
  /\ ~isTiming
  /\ elapsed = 0
  /\ timers = {}

\* C34 (as stated): the bullets auto-save is a debounce.  At most one save
\* is pending; every change of the bullets text cancels the pending save and
\* schedules a new one AutoSaveMs later; a save fires only AutoSaveMs after
\* the latest change, and persists the latest bullets text.
C34_EveryChangeReschedules ==
  /\ [](Cardinality(autosaves) <= 1)
  /\ [][(view = "memorize" /\ view' = "memorize" /\ bulletsHtml' # bulletsHtml)
          => autosaves' = {[due |-> now + AutoSaveMs, bullets |-> bulletsHtml']}]_vars
  /\ [][saves' = saves + 1 =>
          /\ lastInputAt # NULL => now >= lastInputAt + AutoSaveMs
          /\ ScriptOf(activeScriptId)'.bullets = Stored(bulletsHtml)]_vars

\* C34 (amended): as above, but a change that makes the bullets text equal
\* to the stored bullets cancels the pending save and schedules none.
C34_ChangeReschedulesUnlessStored ==
  /\ [](Cardinality(autosaves) <= 1)
  /\ [][(view = "memorize" /\ view' = "memorize" /\ bulletsHtml' # bulletsHtml)
          => autosaves' =
               IF activeScript.bullets = Stored(bulletsHtml')
               THEN {}
               ELSE {[due |-> now + AutoSaveMs, bullets |-> bulletsHtml']}]_vars
  /\ [][saves' = saves + 1 =>
          /\ lastInputAt # NULL => now >= lastInputAt + AutoSaveMs
          /\ ScriptOf(activeScriptId)'.bullets = Stored(bulletsHtml)]_vars

\* the text changed in this session was saved AutoSaveMs after its latest
\* change, and nothing is pending
C34_Witness ==
  /\ view = "memorize"
  /\ lastInputAt # NULL
  /\ lastInputAt > 0
  /\ now = lastInputAt + AutoSaveMs
  /\ saves = 1
  /\ ~unsavedEdit
  /\ activeScript.bullets = Stored(bulletsHtml)
  /\ bulletsHtml # EmptyList
  /\ autosaves = {}

\* C35: every change of the bullets text is eventually persisted: once the
\* user has changed the text, the latest text is eventually passed to
\* onSave, also when the session is left before the auto-save delay has
\* passed.  The cleanup of the auto-save effect clears the pending timeout
\* at unmount and nothing saves on exit: the change is dropped.
C35_EditsEventuallySaved == unsavedEdit ~> ~unsavedEdit

\* C36: a session in which the user never changes the bullets never calls
\* onSave, whatever the stored bullets are: without a change of the text in
\* the session, the stored script records are never rewritten.  The editor
\* starts from formatInitialContent(script.bullets), which differs from
\* absent, empty and plain-text bullets: the auto-save effect arms its
\* timeout at mount and rewrites the record a second later.
C36_NoSaveWithoutEdit ==
  [][(view = "memorize" /\ lastInputAt = NULL) => scripts' = scripts]_vars

\* C37: a save issued by the auto-save in the memorize view updates the
\* active script record alone: the view stays 'memorize', the store keeps its
\* length and the ids, no other record changes, and the content of the
\* active script, hence the tokens of the session, is unchanged.
C37_AutosaveUpdatesActiveOnly ==
  [][saves' = saves + 1 =>
       /\ view = "memorize" /\ view' = "memorize"
       /\ activeScriptId' = activeScriptId
       /\ Len(scripts') = Len(scripts)
       /\ \A i \in DOMAIN scripts :
            /\ scripts'[i].id = scripts[i].id
            /\ scripts'[i].content = scripts[i].content
            /\ scripts[i].id # activeScriptId => scripts'[i] = scripts[i]
       /\ content' = content
       /\ words' = words
       /\ wordIndices' = wordIndices]_vars

\* the session on the second script has saved its bullets, with a word
\* hidden, while the first script still has none
C37_Witness ==
  /\ view = "memorize"
  /\ activeScriptId = 2
  /\ saves = 1
  /\ blackedOutCount > 0
  /\ scripts[2].bullets = Stored(bulletsHtml)
  /\ scripts[1].bullets = Absent

====
